---- MODULE Spec2Model ----
(***************************************************************************)
(* The tab manager of src/components/Browser.tsx as a state machine.       *)
(*                                                                         *)
(* React keeps the component state (browserState) and re-runs Browser()    *)
(* to render it.  Every handler is a closure of the render that created    *)
(* it: what it reads through `activeTab` is the state of that render,      *)
(* while what it writes goes through setBrowserState's updater, which      *)
(* receives the latest state (`prev`).  The model keeps both: tabs and     *)
(* activeTabId are the latest state (all queued updaters applied, in       *)
(* order), rTabs and rActiveTabId the state of the last render.            *)
(*                                                                         *)
(* A string is a sequence of tokens: '' is << >>, 'https://a.test' is      *)
(* <<"https://", "a.test">>.  currentHistoryIndex is 0-based as in the     *)
(* source; At and Slice translate to TLA+'s 1-based sequences.             *)
(***************************************************************************)
EXTENDS Integers, Sequences, FiniteSets, TLC

\* Bounds of the model.
MaxPending == 2   \* commands delivered between two renders
MaxCmds == 6      \* commands delivered in one run

VARIABLES
    tabs,          \* browserState.tabs, latest
    activeTabId,   \* browserState.activeTabId, latest
    rTabs,         \* browserState.tabs as of the last render
    rActiveTabId,  \* browserState.activeTabId as of the last render
    nextId,        \* the next uuid uuidv4() returns
    crashed,       \* a render threw: the component is unmounted
    delivered,     \* the commands delivered since the last render, in order
    frames,        \* the DOM: data-tab-id of each mounted iframe -> its src
    timers,        \* pending setTimeout callbacks of handleRefresh, oldest first
    cmds           \* commands delivered so far

vars == <<tabs, activeTabId, rTabs, rActiveTabId, nextId, crashed, delivered,
          frames, timers, cmds>>

dom == <<frames, timers>>

----------------------------------------------------------------------------
\* Values

EmptyUrl == << >>
Undefined == <<"<undefined>">>
Null == <<"<null>">>
AboutBlank == <<"about:blank">>
NewTabUrl == <<"browser://newtab">>
NewTabTitle == <<"New Tab">>
ErrorTitle == <<"Cannot Display Content">>
ErrorMessage == <<"This website cannot be displayed in an iframe due to security restrictions.">>

\* What a user types into the address bar before Enter.
AddressInputs == { <<" ", "a.test">>, <<"https://", "a.test">> }

\* The url of a shortcut tile of the new-tab page (the first of the six).
ShortcutUrls == { <<"https://", "html5test.com">> }

\* The urls of stored bookmarks: whatever was saved, with a scheme or not.
BookmarkUrls == { <<"https://", "a.test">>, <<"b.test">> }

\* String.prototype.trim: white space off both ends
RECURSIVE TrimStart(_)
TrimStart(s) == IF s # << >> /\ Head(s) = " " THEN TrimStart(Tail(s)) ELSE s

RECURSIVE TrimEnd(_)
TrimEnd(s) ==
    IF s # << >> /\ s[Len(s)] = " " THEN TrimEnd(SubSeq(s, 1, Len(s) - 1)) ELSE s

Trim(s) == TrimEnd(TrimStart(s))

\* url.startsWith(prefix), for a prefix of one token
StartsWith(s, prefix) == s # << >> /\ s[1] = prefix

\* The url AddressBar's handleKeyPress hands to onNavigate for an input
normalizeInput(inputValue) ==
    LET url == Trim(inputValue) IN
    IF ~StartsWith(url, "http://") /\ ~StartsWith(url, "https://")
    THEN <<"https://">> \o url
    ELSE url

\* The destinations the UI hands to onNavigate.
Urls == { normalizeInput(i) : i \in AddressInputs } \cup ShortcutUrls \cup BookmarkUrls

\* document.title of a loaded page: '' when the document has none or is
\* not readable.
DocTitles == { << >>, <<"Doc">> }

\* The id no tab ever has.
UnknownId == 0

\* The ids a tab bar callback may carry: every uuid drawn so far (the tab
\* may have been closed since) and an unknown one.
CmdIds == {UnknownId} \cup (1 .. (nextId - 1))

Falsy(s) == s = EmptyUrl \/ s = Undefined

Min(a, b) == IF a < b THEN a ELSE b

\* array[i], undefined outside the array
At(h, i) == IF i >= 0 /\ i < Len(h) THEN h[i + 1] ELSE Undefined

\* array.slice(0, n) for n >= 0
Slice(h, n) == SubSeq(h, 1, Min(n, Len(h)))

\* array.filter
RECURSIVE Filter(_, _)
Filter(ts, tabId) ==
    IF ts = << >> THEN << >>
    ELSE IF Head(ts).id # tabId
         THEN <<Head(ts)>> \o Filter(Tail(ts), tabId)
         ELSE Filter(Tail(ts), tabId)

HasTab(ts, id) == \E i \in 1 .. Len(ts) : ts[i].id = id

\* array.find: the first match
Find(ts, id) == ts[CHOOSE i \in 1 .. Len(ts) :
                      ts[i].id = id /\ \A j \in 1 .. (i - 1) : ts[j].id # id]

\* { ...tab, ...updates }
Merge(tab, updates) ==
    [k \in DOMAIN tab |-> IF k \in DOMAIN updates THEN updates[k] ELSE tab[k]]

----------------------------------------------------------------------------
\* The program

createNewTab(id) ==
    [id |-> id,
     url |-> EmptyUrl,
     title |-> NewTabTitle,
     history |-> <<EmptyUrl>>,
     currentHistoryIndex |-> 0,
     error |-> Null]

\* The render's `activeTab`: what every handler of that render reads.
\* handleIframeLoad is memoised on [activeTab.url], so the activeTab.url it
\* reads is the last render's as well.
activeTab == Find(rTabs, rActiveTabId)

\* updateActiveTab's updater matching the render's active tab
\* (tab.id === activeTab.id) in place of prev.activeTabId
updateActiveTabOfRender(ts, act, updates) ==
    [i \in 1 .. Len(ts) |->
        IF ts[i].id = rActiveTabId THEN Merge(ts[i], updates) ELSE ts[i]]

\* The updater of updateActiveTab, applied to the latest state
updateActiveTab(ts, act, updates) ==
    [i \in 1 .. Len(ts) |->
        IF ts[i].id = act THEN Merge(ts[i], updates) ELSE ts[i]]

\* handleCloseTab's updater without the branch that refills an empty list
closeTabUpdaterNoRefill(ts, act, tabId, freshId) ==
    LET newTabs == Filter(ts, tabId) IN
    [tabs |-> newTabs,
     activeTabId |-> IF act = tabId /\ Len(newTabs) > 0 THEN newTabs[1].id ELSE act]

\* handleCloseTab's updater leaving activeTabId alone when tabs remain
closeTabUpdaterKeepActive(ts, act, tabId, freshId) ==
    LET newTabs == Filter(ts, tabId) IN
    IF Len(newTabs) = 0
    THEN [tabs |-> <<createNewTab(freshId)>>, activeTabId |-> freshId]
    ELSE [tabs |-> newTabs, activeTabId |-> act]

\* handleCloseTab's updater giving the tab that refills the list the id of
\* the tab that was closed
closeTabUpdaterReuseId(ts, act, tabId, freshId) ==
    LET newTabs == Filter(ts, tabId) IN
    IF Len(newTabs) = 0
    THEN [tabs |-> <<createNewTab(tabId)>>, activeTabId |-> tabId]
    ELSE [tabs |-> newTabs,
          activeTabId |-> IF act = tabId THEN newTabs[1].id ELSE act]

\* The updater of handleCloseTab, applied to the latest state
closeTabUpdater(ts, act, tabId, freshId) ==
    LET newTabs == Filter(ts, tabId) IN
    IF Len(newTabs) = 0
    THEN [tabs |-> <<createNewTab(freshId)>>, activeTabId |-> freshId]
    ELSE [tabs |-> newTabs,
          activeTabId |-> IF act = tabId THEN newTabs[1].id ELSE act]

\* The updater of onTabSelect
selectTabUpdater(act, id) == id

\* getDomainFromUrl: new URL(url) parses a url with a scheme and throws
\* on one without.
getDomainFromUrl(url) ==
    IF Falsy(url) \/ url = AboutBlank \/ url = NewTabUrl THEN NewTabTitle
    ELSE IF Len(url) = 2 /\ url[1] \in {"https://", "http://"} THEN <<url[2]>>
    ELSE url

CanDeliver == ~crashed /\ Len(delivered) < MaxPending /\ cmds < MaxCmds

\* A delivered command: its name, the tab id and the text it carries.
Cmd(op, id, text) == [op |-> op, id |-> id, text |-> text]

Deliver(c) == delivered' = Append(delivered, c) /\ cmds' = cmds + 1

Init ==
    /\ tabs = <<createNewTab(1)>>
    /\ activeTabId = 1
    /\ rTabs = tabs
    /\ rActiveTabId = activeTabId
    /\ nextId = 2
    /\ crashed = FALSE
    /\ delivered = << >>
    /\ frames = << >>
    /\ timers = << >>
    /\ cmds = 0

handleNavigate(url) ==
    LET newHistory ==
            Append(Slice(activeTab.history, activeTab.currentHistoryIndex + 1), url)
    IN
    /\ CanDeliver
    /\ tabs' = updateActiveTab(tabs, activeTabId,
                   [url |-> url,
                    history |-> newHistory,
                    currentHistoryIndex |-> Len(newHistory) - 1,
                    error |-> Null])
    /\ Deliver(Cmd("navigate", 0, url))
    /\ UNCHANGED <<activeTabId, rTabs, rActiveTabId, nextId, crashed, dom>>

\* AddressBar: Enter on the input of the active tab's navigation bar
handleKeyPress(inputValue) == handleNavigate(normalizeInput(inputValue))

\* NewTabPage: a click on a shortcut tile, which the render shows in place
\* of the iframe of a tab with no error and no url
handleShortcutClick(url) ==
    /\ activeTab.error = Null
    /\ Falsy(activeTab.url)
    /\ handleNavigate(url)

\* BookmarkBar onNavigate={handleNavigate}: a click on a bookmark
onBookmarkNavigate(url) == handleNavigate(url)

\* handleNewTab putting the new tab in front of the others
handleNewTabInFront ==
    /\ CanDeliver
    /\ tabs' = <<createNewTab(nextId)>> \o tabs
    /\ activeTabId' = nextId
    /\ nextId' = nextId + 1
    /\ Deliver(Cmd("openTab", nextId, << >>))
    /\ UNCHANGED <<rTabs, rActiveTabId, crashed, dom>>

handleNewTab ==
    /\ CanDeliver
    /\ tabs' = Append(tabs, createNewTab(nextId))
    /\ activeTabId' = nextId
    /\ nextId' = nextId + 1
    /\ Deliver(Cmd("openTab", nextId, << >>))
    /\ UNCHANGED <<rTabs, rActiveTabId, crashed, dom>>

handleCloseTab(tabId) ==
    LET next == closeTabUpdater(tabs, activeTabId, tabId, nextId) IN
    /\ CanDeliver
    /\ tabs' = next.tabs
    /\ activeTabId' = next.activeTabId
    /\ nextId' = IF Len(Filter(tabs, tabId)) = 0 THEN nextId + 1 ELSE nextId
    /\ Deliver(Cmd("closeTab", tabId, << >>))
    /\ UNCHANGED <<rTabs, rActiveTabId, crashed, dom>>

handleBack ==
    /\ CanDeliver
    /\ IF activeTab.currentHistoryIndex > 0
       THEN tabs' = updateActiveTab(tabs, activeTabId,
                [currentHistoryIndex |-> activeTab.currentHistoryIndex - 1,
                 url |-> At(activeTab.history, activeTab.currentHistoryIndex - 1),
                 error |-> Null])
       ELSE tabs' = tabs
    /\ Deliver(Cmd("back", 0, << >>))
    /\ UNCHANGED <<activeTabId, rTabs, rActiveTabId, nextId, crashed, dom>>

handleForward ==
    /\ CanDeliver
    /\ IF activeTab.currentHistoryIndex < Len(activeTab.history) - 1
       THEN tabs' = updateActiveTab(tabs, activeTabId,
                [currentHistoryIndex |-> activeTab.currentHistoryIndex + 1,
                 url |-> At(activeTab.history, activeTab.currentHistoryIndex + 1),
                 error |-> Null])
       ELSE tabs' = tabs
    /\ Deliver(Cmd("forward", 0, << >>))
    /\ UNCHANGED <<activeTabId, rTabs, rActiveTabId, nextId, crashed, dom>>

\* The directory of the page's own URL, against which a src without a
\* scheme resolves
DocumentBase == <<"<document base>">>

\* iframe.src as the DOM returns it: the attribute resolved to an absolute
\* URL, which gives a url of scheme and host its path.
SrcOf(attr) ==
    IF Len(attr) = 2 /\ attr[1] \in {"https://", "http://"}
    THEN attr \o <<"/">>
    ELSE IF attr = AboutBlank THEN attr
    ELSE IF attr # << >> /\ attr[1] \in {"https://", "http://", DocumentBase[1]}
    THEN attr
    ELSE DocumentBase \o attr

\* handleRefresh reloading by navigating to the current url once more
handleRefreshByNavigate ==
    /\ CanDeliver
    /\ tabs' = updateActiveTab(tabs, activeTabId,
                   [error |-> Null,
                    history |-> Append(activeTab.history, activeTab.url),
                    currentHistoryIndex |-> Len(activeTab.history)])
    /\ IF activeTab.id \in DOMAIN frames
       THEN /\ frames' = [frames EXCEPT ![activeTab.id] = AboutBlank]
            /\ timers' = Append(timers,
                   [id |-> activeTab.id, currentSrc |-> SrcOf(frames[activeTab.id])])
       ELSE UNCHANGED dom
    /\ Deliver(Cmd("refresh", 0, << >>))
    /\ UNCHANGED <<activeTabId, rTabs, rActiveTabId, nextId, crashed>>

\* handleRefresh: the updater, then the iframe of the render's active tab,
\* if the DOM has one, is blanked and a timer set to restore what its src
\* was.
handleRefresh ==
    /\ CanDeliver
    /\ tabs' = updateActiveTab(tabs, activeTabId, [error |-> Null])
    /\ IF activeTab.id \in DOMAIN frames
       THEN /\ frames' = [frames EXCEPT ![activeTab.id] = AboutBlank]
            /\ timers' = Append(timers,
                   [id |-> activeTab.id, currentSrc |-> SrcOf(frames[activeTab.id])])
       ELSE UNCHANGED dom
    /\ Deliver(Cmd("refresh", 0, << >>))
    /\ UNCHANGED <<activeTabId, rTabs, rActiveTabId, nextId, crashed>>

\* The callback of setTimeout in handleRefresh
restoreSrc ==
    /\ timers # << >>
    /\ frames' = [frames EXCEPT ![Head(timers).id] = Head(timers).currentSrc]
    /\ timers' = Tail(timers)
    /\ UNCHANGED <<tabs, activeTabId, rTabs, rActiveTabId, nextId, crashed,
                   delivered, cmds>>

\* The render gives a tab an iframe when it has no error and a url.
HasFrame(tab) == tab.error = Null /\ ~Falsy(tab.url)

\* onError of the iframe of rendered tab `src`
handleIframeError(src) ==
    /\ CanDeliver
    /\ src \in DOMAIN frames
    /\ tabs' = updateActiveTab(tabs, activeTabId,
                   [error |-> ErrorMessage, title |-> ErrorTitle])
    /\ Deliver(Cmd("loadFailed", src, << >>))
    /\ UNCHANGED <<activeTabId, rTabs, rActiveTabId, nextId, crashed, dom>>

\* handleIframeLoad clearing the error along with setting the title
handleIframeLoadClearsError(src, docTitle) ==
    LET title == IF docTitle # << >> THEN docTitle
                 ELSE getDomainFromUrl(activeTab.url)
    IN
    /\ CanDeliver
    /\ src \in DOMAIN frames
    /\ tabs' = updateActiveTab(tabs, activeTabId, [title |-> title, error |-> Null])
    /\ Deliver(Cmd("loadSucceeded", src, docTitle))
    /\ UNCHANGED <<activeTabId, rTabs, rActiveTabId, nextId, crashed, dom>>

\* onLoad of the iframe of rendered tab `src`, whose document has title
\* docTitle ('' also when contentDocument is null or unreadable)
handleIframeLoad(src, docTitle) ==
    LET title == IF docTitle # << >> THEN docTitle
                 ELSE getDomainFromUrl(activeTab.url)
    IN
    /\ CanDeliver
    /\ src \in DOMAIN frames
    /\ tabs' = updateActiveTab(tabs, activeTabId, [title |-> title])
    /\ Deliver(Cmd("loadSucceeded", src, docTitle))
    /\ UNCHANGED <<activeTabId, rTabs, rActiveTabId, nextId, crashed, dom>>

onTabSelect(id) ==
    /\ CanDeliver
    /\ activeTabId' = selectTabUpdater(activeTabId, id)
    /\ Deliver(Cmd("selectTab", id, << >>))
    /\ UNCHANGED <<tabs, rTabs, rActiveTabId, nextId, crashed, dom>>

\* The ids of the tabs of ts the render gives an iframe
FrameIds(ts) == { ts[i].id : i \in { j \in 1 .. Len(ts) : HasFrame(ts[j]) } }

\* The iframe of tab id is the same element in the renders of old and new:
\* both give the tab an iframe, under the same key `${tab.id}-${tab.url}`.
SameElement(old, new, id) ==
    /\ id \in FrameIds(old) /\ id \in FrameIds(new)
    /\ Find(old, id).url = Find(new, id).url

\* React re-runs Browser() on the latest state and commits the result to
\* the DOM: an iframe that stays the same element keeps its src (its src
\* prop did not change), any other is mounted with src={tab.url}; a timer
\* of an unmounted iframe can no longer change the document.
\* activeTab.url (the dependency list of handleIframeLoad) throws when no
\* tab has activeTabId, nothing catches it, and React unmounts the tree.
\* The tab that createNewTab() builds on every run of Browser() is used by
\* the first render only (the initial state of useState) and dropped after.
Render ==
    /\ ~crashed
    /\ delivered # << >>
    /\ IF HasTab(tabs, activeTabId)
       THEN /\ rTabs' = tabs
            /\ rActiveTabId' = activeTabId
            /\ crashed' = FALSE
            /\ frames' = [id \in FrameIds(tabs) |->
                             IF SameElement(rTabs, tabs, id)
                             THEN frames[id]
                             ELSE Find(tabs, id).url]
            /\ LET Kept(t) == SameElement(rTabs, tabs, t.id)
               IN timers' = SelectSeq(timers, Kept)
       ELSE /\ crashed' = TRUE
            /\ frames' = << >>
            /\ timers' = << >>
            /\ UNCHANGED <<rTabs, rActiveTabId>>
    /\ delivered' = << >>
    /\ UNCHANGED <<tabs, activeTabId, nextId, cmds>>

Next ==
    \/ \E inputValue \in AddressInputs : handleKeyPress(inputValue)
    \/ \E url \in ShortcutUrls : handleShortcutClick(url)
    \/ \E url \in BookmarkUrls : onBookmarkNavigate(url)
    \/ handleNewTab
    \/ \E id \in CmdIds : handleCloseTab(id)
    \/ handleBack
    \/ handleForward
    \/ \E id \in CmdIds : onTabSelect(id)
    \/ handleRefresh
    \/ restoreSrc
    \/ \E src \in CmdIds : handleIframeError(src)
    \/ \E src \in CmdIds, docTitle \in DocTitles : handleIframeLoad(src, docTitle)
    \/ Render

Spec == Init /\ [][Next]_vars

----------------------------------------------------------------------------
\* Reading a behaviour

Last(s) == s[Len(s)]

\* This step delivers command op.
Step(op) ==
    /\ Len(delivered') = Len(delivered) + 1
    /\ Last(delivered').op = op

\* The tab the latest state calls active, when there is one
HasActive == HasTab(tabs, activeTabId)
Active == Find(tabs, activeTabId)

\* The commands since the last render are exactly ops, in order.
DeliveredOps(ops) ==
    /\ Len(delivered) = Len(ops)
    /\ \A i \in 1 .. Len(ops) : delivered[i].op = ops[i]

\* ts without its k-th element
Without(ts, k) == SubSeq(ts, 1, k - 1) \o SubSeq(ts, k + 1, Len(ts))

----------------------------------------------------------------------------
\* C1: in every reachable state activeTabId is the id of a tab in tabs.
C1_ActiveTabIsMember == HasTab(tabs, activeTabId)

\* C2: selectTab(id) with an id no tab has leaves tabs and activeTabId
\* unchanged.
C2_SelectUnknownIsNoOp ==
    [][\A id \in CmdIds :
          (Step("selectTab") /\ Last(delivered').id = id /\ ~HasTab(tabs, id))
              => (tabs' = tabs /\ activeTabId' = activeTabId)]_vars

\* C3: tabs is never empty, and closeTab of the only remaining tab leaves
\* exactly one tab: a fresh default one (an id no tab had before, url '',
\* history [''], cursor 0, no error), which is the active tab.
C3_CloseLastTabStep ==
    (Step("closeTab") /\ Len(tabs) = 1 /\ tabs[1].id = Last(delivered').id)
        => /\ Len(tabs') = 1
           /\ tabs'[1].id \notin CmdIds
           /\ tabs'[1].url = EmptyUrl
           /\ tabs'[1].history = <<EmptyUrl>>
           /\ tabs'[1].currentHistoryIndex = 0
           /\ tabs'[1].error = Null
           /\ activeTabId' = tabs'[1].id

C3_NeverEmpty == [](Len(tabs) >= 1) /\ [][C3_CloseLastTabStep]_vars

\* The only tab, which had been navigated, was closed and a fresh one
\* stands in its place.
C3_Witness ==
    /\ DeliveredOps(<<"closeTab">>)
    /\ Len(rTabs) = 1
    /\ rTabs[1].id = delivered[1].id
    /\ Len(rTabs[1].history) > 1
    /\ Len(tabs) = 1
    /\ tabs[1].id # rTabs[1].id
    /\ activeTabId = tabs[1].id

\* C4: every tab's history is non-empty and its cursor is an index of it.
C4_CursorInRange ==
    \A i \in 1 .. Len(tabs) :
        /\ Len(tabs[i].history) >= 1
        /\ tabs[i].currentHistoryIndex >= 0
        /\ tabs[i].currentHistoryIndex < Len(tabs[i].history)

\* C5: every tab's url is the history entry under its cursor.
C5_UrlIsCurrentEntry ==
    \A i \in 1 .. Len(tabs) :
        tabs[i].url = At(tabs[i].history, tabs[i].currentHistoryIndex)

\* C6: two navigate commands delivered to the active tab before the next
\* render leave its history holding both destinations after the entries up
\* to the cursor, in delivery order, with the cursor on the second.
C6_NoCoalescing ==
    DeliveredOps(<<"navigate", "navigate">>)
        => /\ Active.history =
                Slice(activeTab.history, activeTab.currentHistoryIndex + 1)
                    \o <<delivered[1].text, delivered[2].text>>
           /\ Active.currentHistoryIndex = Len(Active.history) - 1

\* C7: when navigate calls are all the fresh tab has received, its history
\* is the empty entry followed by the destinations in call order, and the
\* cursor is on the last entry.
C7_NavigateSequence ==
    (cmds = Len(delivered) /\ \A i \in 1 .. Len(delivered) : delivered[i].op = "navigate")
        => /\ tabs[1].history =
                <<EmptyUrl>> \o [i \in 1 .. Len(delivered) |-> delivered[i].text]
           /\ tabs[1].currentHistoryIndex = Len(tabs[1].history) - 1

\* C8: navigate(x) with the active tab's cursor c before the last entry
\* leaves history[0..c] followed by x and the cursor on x, and a forward()
\* that follows changes nothing.
C8_NavigateStep ==
    (Step("navigate") /\ HasActive
        /\ Active.currentHistoryIndex < Len(Active.history) - 1)
        => LET t == Find(tabs', activeTabId) IN
           /\ t.history = Append(Slice(Active.history, Active.currentHistoryIndex + 1),
                                 Last(delivered').text)
           /\ t.currentHistoryIndex = Active.currentHistoryIndex + 1

C8_ForwardAfterNavigateStep ==
    (Step("forward") /\ delivered # << >> /\ Last(delivered).op = "navigate")
        => tabs' = tabs

C8_NavigateTruncates == [][C8_NavigateStep /\ C8_ForwardAfterNavigateStep]_vars

\* C9: back() then forward() with the cursor above 0 restores the cursor
\* and the url and leaves the history as it was; back() at cursor 0 and
\* forward() at the last entry change nothing.
C9_RoundTrip ==
    (DeliveredOps(<<"back", "forward">>) /\ activeTab.currentHistoryIndex > 0)
        => /\ Active.currentHistoryIndex = activeTab.currentHistoryIndex
           /\ Active.url = activeTab.url
           /\ Active.history = activeTab.history

C9_BoundaryStep ==
    /\ (Step("back") /\ HasActive /\ Active.currentHistoryIndex = 0)
          => tabs' = tabs
    /\ (Step("forward") /\ HasActive
          /\ Active.currentHistoryIndex = Len(Active.history) - 1)
          => tabs' = tabs

C9_BackForward == []C9_RoundTrip /\ [][C9_BoundaryStep]_vars

\* C10: closeTab(id) of a present tab that is not the only one removes
\* that tab and nothing else, the others keeping order and contents;
\* activeTabId becomes the first remaining tab's id when id was the active
\* tab and is unchanged otherwise.
C10_CloseTabStep ==
    \A k \in 1 .. Len(tabs) :
        (Step("closeTab") /\ Last(delivered').id = tabs[k].id /\ Len(tabs) > 1)
            => /\ tabs' = Without(tabs, k)
               /\ activeTabId' = IF activeTabId = tabs[k].id
                                 THEN Without(tabs, k)[1].id
                                 ELSE activeTabId

C10_CloseTab == [][C10_CloseTabStep]_vars

\* The active tab, second of three, was closed: the first and the third
\* remain and the first is active.
C10_Witness ==
    /\ DeliveredOps(<<"closeTab">>)
    /\ Len(rTabs) = 3
    /\ rActiveTabId = rTabs[2].id
    /\ delivered[1].id = rTabs[2].id
    /\ tabs = <<rTabs[1], rTabs[3]>>
    /\ activeTabId = rTabs[1].id

\* C11: navigate(url) pushes and stores url itself when url starts with
\* http:// or https:// and "https://" followed by url otherwise, whichever
\* entry path delivered it; so every history entry but the first starts
\* with one of the two schemes.
HasScheme(s) == s # << >> /\ s[1] \in {"http://", "https://"}

C11_EntriesHaveScheme ==
    \A i \in 1 .. Len(tabs) :
        \A j \in 2 .. Len(tabs[i].history) : HasScheme(tabs[i].history[j])

C11_NavigateStep ==
    (Step("navigate") /\ HasActive)
        => LET url == Last(delivered').text
               destination == IF HasScheme(url) THEN url ELSE <<"https://">> \o url
               t == Find(tabs', activeTabId)
           IN /\ t.url = destination
              /\ Last(t.history) = destination

C11_NavigateNormalizes == []C11_EntriesHaveScheme /\ [][C11_NavigateStep]_vars

TabIds(ts) == { ts[i].id : i \in 1 .. Len(ts) }

C13_UniqueIds ==
    /\ \A i, j \in 1 .. Len(tabs) : i # j => tabs[i].id # tabs[j].id
    /\ TabIds(tabs) \subseteq 1 .. (nextId - 1)

C13_IdStep ==
    /\ \A id \in TabIds(tabs') \ TabIds(tabs) : id \notin 1 .. (nextId - 1)
    /\ (Step("closeTab") /\ Last(delivered').id \in TabIds(tabs))
          => Last(delivered').id \notin TabIds(tabs')

C13_IdsNeverReused == []C13_UniqueIds /\ [][C13_IdStep]_vars

\* A tab was closed and another opened after it, under another id.
C13_Witness ==
    /\ DeliveredOps(<<"closeTab", "openTab">>)
    /\ delivered[1].id \in TabIds(rTabs)
    /\ delivered[1].id \notin TabIds(tabs)
    /\ delivered[2].id \in TabIds(tabs)
    /\ delivered[2].id \notin TabIds(rTabs)

\* C14: closeTab(id) with an id no tab has changes neither tabs nor
\* activeTabId and creates no tab.
C14_CloseUnknownIsNoOp ==
    [][(Step("closeTab") /\ Last(delivered').id \notin TabIds(tabs))
          => /\ tabs' = tabs
             /\ activeTabId' = activeTabId
             /\ nextId' = nextId]_vars

\* C15: openTab() appends one tab to tabs: url '', title 'New Tab',
\* history [''], cursor 0, no error, an id no tab has; that tab becomes
\* the active one and the tabs before it stay as and where they were.
C15_OpenTabStep ==
    Step("openTab")
        => LET new == tabs'[Len(tabs')] IN
           /\ Len(tabs') = Len(tabs) + 1
           /\ SubSeq(tabs', 1, Len(tabs)) = tabs
           /\ new.id \notin TabIds(tabs)
           /\ new.url = EmptyUrl
           /\ new.title = <<"New Tab">>
           /\ new.history = <<EmptyUrl>>
           /\ new.currentHistoryIndex = 0
           /\ new.error = Null
           /\ activeTabId' = new.id

C15_OpenTab == [][C15_OpenTabStep]_vars

\* A tab was opened beside two tabs, the first of which had been
\* navigated.
C15_Witness ==
    /\ DeliveredOps(<<"openTab">>)
    /\ Len(rTabs) = 2
    /\ Len(rTabs[1].history) > 1
    /\ Len(tabs) = 3
    /\ tabs[1] = rTabs[1] /\ tabs[2] = rTabs[2]
    /\ activeTabId = tabs[3].id

\* C16: refresh() clears the active tab's error and changes nothing else
\* of that tab, no other tab, and not activeTabId.
C16_RefreshStep ==
    Step("refresh")
        => /\ activeTabId' = activeTabId
           /\ Len(tabs') = Len(tabs)
           /\ \A i \in 1 .. Len(tabs) :
                 tabs'[i] = IF tabs[i].id = activeTabId
                            THEN [tabs[i] EXCEPT !.error = Null]
                            ELSE tabs[i]

C16_Refresh == [][C16_RefreshStep]_vars

\* The active tab of two showed an error and was refreshed.
C16_Witness ==
    /\ DeliveredOps(<<"refresh">>)
    /\ Len(tabs) = 2
    /\ activeTab.error # Null
    /\ Len(activeTab.history) > 1
    /\ HasActive
    /\ Active.error = Null
    /\ Active.history = activeTab.history

\* C17: after a load-success report the active tab has no error, its title
\* is the reported title or, without one, the name derived from its url,
\* and its history and cursor are as before.
C17_LoadSuccessStep ==
    (Step("loadSucceeded") /\ HasActive)
        => LET t == Find(tabs', activeTabId)
               reported == Last(delivered').text
           IN /\ t.error = Null
              /\ t.title = IF reported # << >> THEN reported
                           ELSE getDomainFromUrl(Active.url)
              /\ t.history = Active.history
              /\ t.currentHistoryIndex = Active.currentHistoryIndex

C17_LoadSuccess == [][C17_LoadSuccessStep]_vars

\* C18: navigate, back, forward, refresh and the display surface's reports
\* change no tab but the one activeTabId names when the command is
\* processed, whatever was delivered before it since the last render.
TabCommand ==
    \/ Step("navigate") \/ Step("back") \/ Step("forward") \/ Step("refresh")
    \/ Step("loadSucceeded") \/ Step("loadFailed")

C18_IsolationStep ==
    TabCommand
        => /\ activeTabId' = activeTabId
           /\ Len(tabs') = Len(tabs)
           /\ \A i \in 1 .. Len(tabs) :
                 tabs[i].id # activeTabId => tabs'[i] = tabs[i]

C18_TabIsolation == [][C18_IsolationStep]_vars

\* The second tab was selected and a navigate delivered before the render:
\* the first tab, which the render still shows, is as it was, and the
\* second one has changed.
C18_Witness ==
    /\ DeliveredOps(<<"selectTab", "navigate">>)
    /\ Len(rTabs) = 2 /\ Len(tabs) = 2
    /\ rActiveTabId = rTabs[1].id
    /\ delivered[1].id = rTabs[2].id
    /\ Len(rTabs[1].history) > 1
    /\ tabs[1] = rTabs[1]
    /\ tabs[2] # rTabs[2]

\* C19: when no restore timer of handleRefresh is pending, the src of
\* every iframe is the destination the render gave it, not about:blank.
C19_SrcRestored ==
    timers = << >>
        => \A id \in DOMAIN frames :
              SrcOf(frames[id]) = SrcOf(Find(rTabs, id).url)

\* C20: a load or error event of the iframe of tab T changes no tab but T.
C20_ReportStep ==
    (Step("loadSucceeded") \/ Step("loadFailed"))
        => /\ Len(tabs') = Len(tabs)
           /\ \A i \in 1 .. Len(tabs) :
                 tabs[i].id # Last(delivered').id => tabs'[i] = tabs[i]

C20_ReportsStayOnTheirTab == [][C20_ReportStep]_vars

====
